---- MODULE Spec2Model ----
(***************************************************************************)
(* Model of the uplift portfolio profit engine of the Model Auditor app    *)
(* (streamlit_app/utils/calculations.py).                                  *)
(*                                                                         *)
(* The engine is a set of pure functions over a pandas DataFrame.  The     *)
(* state machine below is one session of the app: the CSV file is loaded   *)
(* and decile-labelled once (load_and_prepare_data), after which the       *)
(* estimators are called, one call at a time, with arbitrary arguments.    *)
(*                                                                         *)
(* Numbers.  Python floats are modelled by exact rationals [n, d] in       *)
(* lowest terms with d > 0; the float NaN (mean of an empty Series) is the *)
(* extra value [n |-> 0, d |-> 0].  Rounding error of IEEE arithmetic is   *)
(* not modelled.                                                           *)
(***************************************************************************)
EXTENDS Integers, Sequences, FiniteSets, TLC

VARIABLES
    csv,      \* rows of the input file: [uplift_score, treatment, y_true]
    df,       \* the DataFrame returned by load_and_prepare_data (<<>> before)
    pc,       \* "start" | "ready" | "failed" | "returned"
    raised,   \* name of the exception the last operation raised, or "none"
    call,     \* the last call: function name and arguments
    sorted,   \* rows of `pool` after sort_values in the last call (df positions)
    result    \* the dict returned by the last call

vars == <<csv, df, pc, raised, call, sorted, result>>

-----------------------------------------------------------------------------
(* Bounds of the model *)

\* longest input file of the profit specification
MaxRecords == 3

\* longest input file of the profit-curve specification
MaxCurveRecords == 2

\* longest input file of the audit specification, and the number of its
\* leading rows that vary freely
MaxAuditRecords == 12
MaxVariedRows == 2

\* longest input file of the decile-assignment specification
MaxDecileRecords == 12

\* the uplift scores a row may carry (two values, so that scores tie)
Scores == {1, 2}

\* number of quantile bins requested from qcut (q=10)
NumBins == 10

-----------------------------------------------------------------------------
(* Exact arithmetic standing in for Python floats *)

Abs(x) == IF x < 0 THEN -x ELSE x

RECURSIVE GCD(_, _)
GCD(a, b) == IF b = 0 THEN a ELSE GCD(b, a % b)

NaN == [n |-> 0, d |-> 0]

IsNaN(x) == x.d = 0

\* the rational a / b in lowest terms; division by zero gives NaN
Rat(a, b) ==
    IF b = 0 THEN NaN
    ELSE LET g == GCD(Abs(a), Abs(b))
             s == IF b < 0 THEN -1 ELSE 1
         IN  [n |-> (s * a) \div g, d |-> (s * b) \div g]

RInt(i) == [n |-> i, d |-> 1]

RAdd(x, y) == IF IsNaN(x) \/ IsNaN(y) THEN NaN
              ELSE Rat(x.n * y.d + y.n * x.d, x.d * y.d)

RSub(x, y) == IF IsNaN(x) \/ IsNaN(y) THEN NaN
              ELSE Rat(x.n * y.d - y.n * x.d, x.d * y.d)

RMul(x, y) == IF IsNaN(x) \/ IsNaN(y) THEN NaN
              ELSE Rat(x.n * y.n, x.d * y.d)

\* comparisons with NaN are false, as in IEEE arithmetic
RLess(x, y) == ~IsNaN(x) /\ ~IsNaN(y) /\ x.n * y.d < y.n * x.d

RLeq(x, y) == ~IsNaN(x) /\ ~IsNaN(y) /\ x.n * y.d <= y.n * x.d

REq(x, y) == ~IsNaN(x) /\ ~IsNaN(y) /\ x = y

\* floor of a rational
RFloor(x) == x.n \div x.d

\* Python int(x): truncation toward zero
IntTrunc(x) == IF x.n >= 0 THEN x.n \div x.d ELSE -((-x.n) \div x.d)

-----------------------------------------------------------------------------
(* Series helpers *)

RECURSIVE SumSeq(_)
SumSeq(s) == IF s = <<>> THEN 0 ELSE Head(s) + SumSeq(Tail(s))

\* Series.mean(): NaN for an empty Series
Mean(s) == Rat(SumSeq(s), Len(s))

\* the members of a set of integers as an ascending sequence
RECURSIVE SeqOfSet(_)
SeqOfSet(S) ==
    IF S = {} THEN <<>>
    ELSE LET m == CHOOSE x \in S : \A y \in S : x <= y
         IN  <<m>> \o SeqOfSet(S \ {m})

\* Op applied to the value of v, with v evaluated once
With(v, Op(_)) == CHOOSE r \in {Op(e) : e \in {v}} : TRUE

\* DataFrame.head(n): first n rows; for negative n all but the last |n| rows
HeadN(s, n) ==
    LET k == IF n >= 0 THEN (IF n < Len(s) THEN n ELSE Len(s))
             ELSE (IF Len(s) + n > 0 THEN Len(s) + n ELSE 0)
    IN  SubSeq(s, 1, k)

-----------------------------------------------------------------------------
(* load_and_prepare_data: rank, qcut, decile label *)

\* Rank with a defect: rank(method='min'), tied scores share one rank
RankMin(scores) ==
    [i \in 1..Len(scores) |->
        Cardinality({j \in 1..Len(scores) : scores[j] < scores[i]}) + 1]

\* Rank with a defect: ties ranked in reverse order of appearance
RankTiesReversed(scores) ==
    [i \in 1..Len(scores) |->
        Cardinality({j \in 1..Len(scores) : scores[j] < scores[i]})
      + Cardinality({j \in (i + 1)..Len(scores) : scores[j] = scores[i]}) + 1]

\* Series.rank(method='first'): ascending rank, ties in order of appearance
Rank(scores) ==
    [i \in 1..Len(scores) |->
        Cardinality({j \in 1..Len(scores) : scores[j] < scores[i]})
      + Cardinality({j \in 1..(i - 1) : scores[j] = scores[i]}) + 1]

\* the p-th smallest value of xs (p in 1..Len(xs)), duplicates counted
OrderStat(xs, p) ==
    CHOOSE x \in {xs[i] : i \in 1..Len(xs)} :
        /\ Cardinality({j \in 1..Len(xs) : xs[j] < x}) < p
        /\ p <= Cardinality({j \in 1..Len(xs) : xs[j] <= x})

\* Series.quantile(k / q), linear interpolation between order statistics
Quantile(xs, k, q) ==
    LET h    == Rat((Len(xs) - 1) * k, q)
        lo   == RFloor(h)
        frac == RSub(h, RInt(lo))
        hi   == IF lo + 2 <= Len(xs) THEN lo + 2 ELSE lo + 1
        vlo  == OrderStat(xs, lo + 1)
        vhi  == OrderStat(xs, hi)
    IN  RAdd(RInt(vlo), RMul(frac, RInt(vhi - vlo)))

\* the q+1 bin edges qcut computes: quantiles at linspace(0, 1, q+1)
BinEdges(xs, q) == [k \in 0..q |-> Quantile(xs, k, q)]

\* bins.searchsorted(x, side='left') with include_lowest: the 0-based label
BinLabel(edges, q, x) ==
    LET ids == Cardinality({k \in 0..q : RLess(edges[k], RInt(x))})
    IN  (IF RInt(x) = edges[0] THEN 1 ELSE ids) - 1

\* pd.qcut(xs, q, labels=False): the labels, or the error it raises
\* (duplicate bin edges, or no finite edge at all for an empty Series)
QCut(xs, q) ==
    IF Len(xs) = 0
    THEN [error |-> "ValueError", labels |-> <<>>]
    ELSE With(BinEdges(xs, q), LAMBDA edges :
            IF Cardinality({edges[k] : k \in 0..q}) < q + 1
            THEN [error |-> "ValueError", labels |-> <<>>]
            ELSE [error |-> "none",
                  labels |-> [i \in 1..Len(xs) |-> BinLabel(edges, q, xs[i])]])

ScoreColumn(rows) == [i \in 1..Len(rows) |-> rows[i].uplift_score]

\* the decile column: qcut of the first-rank of the score, plus 1
DecileColumn(rows) ==
    With(Rank(ScoreColumn(rows)), LAMBDA ranks :
        With(QCut(ranks, NumBins), LAMBDA cut :
            [error |-> cut.error,
             labels |-> [i \in 1..Len(cut.labels) |-> cut.labels[i] + 1]]))

-----------------------------------------------------------------------------
(* calculate_portfolio_profit *)

\* Pool with a defect: the decile filter is not applied
PoolUnfiltered(frame, selected_deciles) ==
    SeqOfSet({i \in 1..Len(frame) : frame[i].decile \in 1..NumBins})

\* df[df['decile'].isin(selected_deciles)]: positions of the pool rows, in order
Pool(frame, selected_deciles) ==
    SeqOfSet({i \in 1..Len(frame) : frame[i].decile \in selected_deciles})

\* every order sort_values('uplift_score', ascending=False) can leave the rows
\* S in: descending by score; the default sort kind is not stable, so rows
\* with equal scores may come out in any order
RECURSIVE SortValues(_, _)
SortValues(frame, S) ==
    IF S = {} THEN {<<>>}
    ELSE UNION {{<<i>> \o t : t \in SortValues(frame, S \ {i})} :
                i \in {j \in S : \A k \in S :
                                   frame[k].uplift_score <= frame[j].uplift_score}}

Range(s) == {s[i] : i \in 1..Len(s)}

\* the y_true column of the rows at positions `rows` whose treatment is arm
Outcomes(frame, rows, arm) ==
    LET keep == SelectSeq(rows, LAMBDA i : frame[i].treatment = arm)
    IN  [k \in 1..Len(keep) |-> frame[keep[k]].y_true]

Zero == RInt(0)

\* lines 84-92: the dict returned for an empty pool
EmptyPoolResult ==
    [profit |-> Zero, revenue |-> Zero, cost |-> Zero,
     incremental_conversions |-> Zero, emails_sent |-> 0, pool_size |-> 0]

\* Python round(x): to the nearest integer, halves to the even one
PyRound(x) ==
    LET fl   == RFloor(x)
        frac == RSub(x, RInt(fl))
    IN  IF RLess(frac, Rat(1, 2)) THEN fl
        ELSE IF RLess(Rat(1, 2), frac) THEN fl + 1
        ELSE IF fl % 2 = 0 THEN fl ELSE fl + 1

\* NTarget with a defect: the product rounded instead of truncated
NTargetRounded(pool_size, target_pct) ==
    LET n == PyRound(RMul(RInt(pool_size), target_pct))
    IN  IF n = 0 THEN 1 ELSE n

\* lines 98-100: number of rows to target
NTarget(pool_size, target_pct) ==
    LET n == IntTrunc(RMul(RInt(pool_size), target_pct))
    IN  IF n = 0 THEN 1 ELSE n

\* IncrConv with a defect: the arm test written with `or`
IncrConvEitherArm(frame, targeted, n_target) ==
    With(Outcomes(frame, targeted, 1), LAMBDA treated :
        With(Outcomes(frame, targeted, 0), LAMBDA control :
            IF Len(treated) > 0 \/ Len(control) > 0
            THEN RMul(RSub(Mean(treated), Mean(control)), RInt(n_target))
            ELSE Zero))

\* lines 102-117: incremental conversions projected from the targeted rows
IncrConv(frame, targeted, n_target) ==
    With(Outcomes(frame, targeted, 1), LAMBDA treated :
        With(Outcomes(frame, targeted, 0), LAMBDA control :
            IF Len(treated) > 0 /\ Len(control) > 0
            THEN RMul(RSub(Mean(treated), Mean(control)), RInt(n_target))
            ELSE Zero))

\* PortfolioResult with a defect: the whole pool is charged for
PortfolioResultPoolCost(incr_conv, n_target, pool_size, email_cost, profit_per_conversion) ==
    With(RMul(RInt(pool_size), email_cost), LAMBDA cost :
        With(RMul(incr_conv, profit_per_conversion), LAMBDA revenue :
            [profit |-> RSub(revenue, cost), revenue |-> revenue, cost |-> cost,
             incremental_conversions |-> incr_conv, emails_sent |-> n_target,
             pool_size |-> pool_size]))

\* lines 119-130: cost, revenue, profit and the returned dict
PortfolioResult(incr_conv, n_target, pool_size, email_cost, profit_per_conversion) ==
    With(RMul(RInt(n_target), email_cost), LAMBDA cost :
        With(RMul(incr_conv, profit_per_conversion), LAMBDA revenue :
            [profit |-> RSub(revenue, cost), revenue |-> revenue, cost |-> cost,
             incremental_conversions |-> incr_conv, emails_sent |-> n_target,
             pool_size |-> pool_size]))

\* PortfolioProfit with a defect: the early return for an empty pool is missing
PortfolioProfitNoEarlyReturn(frame, srt, target_pct, email_cost, profit_per_conversion) ==
    With(NTarget(Len(srt), target_pct), LAMBDA n_target :
        With(IncrConv(frame, HeadN(srt, n_target), n_target), LAMBDA incr_conv :
            PortfolioResult(incr_conv, n_target, Len(srt),
                            email_cost, profit_per_conversion)))

\* calculate_portfolio_profit, given the order `srt` the sort left the pool in
PortfolioProfit(frame, srt, target_pct, email_cost, profit_per_conversion) ==
    LET pool_size == Len(srt)
    IN  IF pool_size = 0 THEN EmptyPoolResult
        ELSE With(NTarget(pool_size, target_pct), LAMBDA n_target :
                With(IncrConv(frame, HeadN(srt, n_target), n_target), LAMBDA incr_conv :
                    PortfolioResult(incr_conv, n_target, pool_size,
                                    email_cost, profit_per_conversion)))

-----------------------------------------------------------------------------
(* calculate_spray_and_pray *)

\* the dict of lines 142-162; the arm means are taken without an emptiness
\* test, and the dict has no pool_size key
SprayAndPray(frame, email_cost, profit_per_conversion) ==
    LET n_total == Len(frame)
        all     == [i \in 1..n_total |-> i]
    IN  With(RSub(Mean(Outcomes(frame, all, 1)), Mean(Outcomes(frame, all, 0))),
             LAMBDA uplift_rate :
        With(RMul(uplift_rate, RInt(n_total)), LAMBDA incr_conv :
        With(RMul(RInt(n_total), email_cost), LAMBDA cost :
        With(RMul(incr_conv, profit_per_conversion), LAMBDA revenue :
            [profit |-> RSub(revenue, cost), revenue |-> revenue, cost |-> cost,
             incremental_conversions |-> incr_conv, emails_sent |-> n_total]))))

-----------------------------------------------------------------------------
(* calculate_profit_curve *)

\* first percentage, one past the last, and the step of range(5, 105, 5)
SweepStart == 5
SweepStop == 105
SweepStep == 5

\* list(range(5, 105, 5))
Percentages ==
    [k \in 1..((SweepStop - SweepStart + SweepStep - 1) \div SweepStep) |->
        SweepStart + (k - 1) * SweepStep]

\* ArgMax with a defect: the last position of the maximum
ArgMaxLast(xs) ==
    CHOOSE i \in 1..Len(xs) :
        /\ \A j \in 1..Len(xs) : RLeq(xs[j], xs[i])
        /\ \A j \in (i + 1)..Len(xs) : xs[j] # xs[i]

\* np.argmax: the first position of the maximum (1-based here)
ArgMax(xs) ==
    CHOOSE i \in 1..Len(xs) :
        /\ \A j \in 1..Len(xs) : RLeq(xs[j], xs[i])
        /\ \A j \in 1..(i - 1) : xs[j] # xs[i]

\* SweepProfits with a defect: the percentage is passed without the division by 100
SweepProfitsWholePercent(frame, srt, email_cost, profit_per_conversion) ==
    [k \in 1..Len(Percentages) |->
        PortfolioProfit(frame, srt, RInt(Percentages[k]),
                        email_cost, profit_per_conversion).profit]

\* lines 179-185: the profit of the portfolio at each percentage of the sweep
SweepProfits(frame, srt, email_cost, profit_per_conversion) ==
    [k \in 1..Len(Percentages) |->
        PortfolioProfit(frame, srt, Rat(Percentages[k], 100),
                        email_cost, profit_per_conversion).profit]

\* the dict of lines 190-195
ProfitCurve(frame, srt, email_cost, profit_per_conversion) ==
    With(SweepProfits(frame, srt, email_cost, profit_per_conversion), LAMBDA profits :
        With(ArgMax(profits), LAMBDA optimal_idx :
            [percentages |-> Percentages, profits |-> profits,
             optimal_pct |-> Percentages[optimal_idx],
             optimal_profit |-> profits[optimal_idx]]))

-----------------------------------------------------------------------------
(* calculate_decile_stats *)

\* the y_true column of the rows of one decile whose treatment is arm
DecileOutcomes(frame, decile, arm) ==
    Outcomes(frame, SeqOfSet({i \in 1..Len(frame) : frame[i].decile = decile}), arm)

\* lines 43-52: the dict appended for one decile
StatsRow(decile, n_total, n_treated, n_control, treat_rate, ctrl_rate, uplift_rate) ==
    [decile |-> decile, n_customers |-> n_total, n_treated |-> n_treated,
     n_control |-> n_control,
     treatment_rate |-> RMul(treat_rate, RInt(100)),
     control_rate |-> RMul(ctrl_rate, RInt(100)),
     observed_lift |-> RMul(uplift_rate, RInt(100)),
     uplift_rate |-> uplift_rate]

\* DecileStatsRow with a defect: the rates are taken whenever the decile has rows
DecileStatsRowAnyRows(frame, decile) ==
    With(DecileOutcomes(frame, decile, 1), LAMBDA treated :
        With(DecileOutcomes(frame, decile, 0), LAMBDA control :
            With(Cardinality({i \in 1..Len(frame) : frame[i].decile = decile}),
                 LAMBDA n_total :
                IF n_total > 0
                THEN StatsRow(decile, n_total, Len(treated), Len(control),
                              Mean(treated), Mean(control),
                              RSub(Mean(treated), Mean(control)))
                ELSE StatsRow(decile, n_total, Len(treated), Len(control),
                              Zero, Zero, Zero))))

\* lines 28-52: the statistics of one decile
DecileStatsRow(frame, decile) ==
    With(DecileOutcomes(frame, decile, 1), LAMBDA treated :
        With(DecileOutcomes(frame, decile, 0), LAMBDA control :
            With(Cardinality({i \in 1..Len(frame) : frame[i].decile = decile}),
                 LAMBDA n_total :
                IF Len(treated) > 0 /\ Len(control) > 0
                THEN StatsRow(decile, n_total, Len(treated), Len(control),
                              Mean(treated), Mean(control),
                              RSub(Mean(treated), Mean(control)))
                ELSE StatsRow(decile, n_total, Len(treated), Len(control),
                              Zero, Zero, Zero))))

\* calculate_decile_stats: one row for each decile of range(1, 11), in order
DecileStats(frame) == [k \in 1..NumBins |-> DecileStatsRow(frame, k)]

-----------------------------------------------------------------------------
(* Inputs *)

AllDeciles == 1..NumBins

\* the rows a file may hold
Rows == [uplift_score : Scores, treatment : {0, 1}, y_true : {0, 1}]

\* the sequences over S of length at most n
SeqsUpTo(S, n) == UNION {[1..k -> S] : k \in 0..n}

\* files of the decile-assignment specification: the scores vary freely, the
\* arm alternates and the outcome is fixed
ScoreOnlyFile(scores) ==
    [i \in 1..Len(scores) |->
        [uplift_score |-> scores[i], treatment |-> i % 2, y_true |-> 1]]

\* files of the audit specification: the leading rows vary freely; each later
\* row has a score of its own above every score of the leading rows, its arm
\* alternates and every third row converted
AuditTail(from, to) ==
    [i \in 1..(to - from) |->
        [uplift_score |-> 2 + from + i, treatment |-> (from + i) % 2,
         y_true |-> IF (from + i) % 3 = 0 THEN 1 ELSE 0]]

AuditFiles ==
    {head \o AuditTail(Len(head), n) :
        head \in SeqsUpTo(Rows, MaxVariedRows), n \in 0..MaxAuditRecords}

\* included-decile sets passed by the callers
DecileSets == {{}, {9}, {5, 10}, AllDeciles}

\* targeting fractions passed by the callers, valid (in (0,1]) and not
TargetPcts == {Rat(-1, 2), Zero, Rat(1, 2), Rat(9, 10), RInt(1), Rat(3, 2)}

\* <<email_cost, profit_per_conversion>> pairs passed by the callers, valid
\* (both positive) and not
CostParams == {<<Rat(1, 10), RInt(5)>>, <<Rat(1, 2), RInt(25)>>,
               <<Zero, RInt(5)>>, <<Rat(1, 10), RInt(-5)>>}

\* decile selections of the audit: decile 9 removed, or the two lowest deciles
AuditDecileSets == {AllDeciles \ {9}, AllDeciles \ {1, 2}}

\* targeting fractions of the audit, all in (0,1]
AuditPcts == {Rat(1, 10), Rat(1, 5), Rat(1, 4), Rat(1, 2), RInt(1)}

\* cost parameters of the audit: the defaults of the sliders of main
AuditCostParams == {<<Rat(1, 10), RInt(25)>>}

NoCall == [fn |-> "none", selected_deciles |-> {}, target_pct |-> Zero,
           email_cost |-> Zero, profit_per_conversion |-> Zero]

NoResult == [none |-> TRUE]

-----------------------------------------------------------------------------
(* The session *)

Init ==
    /\ csv \in SeqsUpTo(Rows, MaxRecords)
    /\ df = <<>>
    /\ pc = "start"
    /\ raised = "none"
    /\ call = NoCall
    /\ sorted = <<>>
    /\ result = NoResult

InitCurve ==
    /\ csv \in SeqsUpTo(Rows, MaxCurveRecords)
    /\ df = <<>>
    /\ pc = "start"
    /\ raised = "none"
    /\ call = NoCall
    /\ sorted = <<>>
    /\ result = NoResult

InitAudit ==
    /\ csv \in AuditFiles
    /\ df = <<>>
    /\ pc = "start"
    /\ raised = "none"
    /\ call = NoCall
    /\ sorted = <<>>
    /\ result = NoResult

InitDecile ==
    /\ csv \in {ScoreOnlyFile(s) : s \in SeqsUpTo(Scores, MaxDecileRecords)}
    /\ df = <<>>
    /\ pc = "start"
    /\ raised = "none"
    /\ call = NoCall
    /\ sorted = <<>>
    /\ result = NoResult

\* load_and_prepare_data: read the file, add the decile column
LoadAndPrepareData ==
    /\ pc = "start"
    /\ \E col \in {DecileColumn(csv)} :
           /\ raised' = col.error
           /\ pc' = IF col.error = "none" THEN "ready" ELSE "failed"
           /\ df' = IF col.error = "none"
                    THEN [i \in 1..Len(csv) |->
                            [uplift_score |-> csv[i].uplift_score,
                             treatment |-> csv[i].treatment,
                             y_true |-> csv[i].y_true,
                             decile |-> col.labels[i]]]
                    ELSE <<>>
    /\ call' = [NoCall EXCEPT !.fn = "load_and_prepare_data"]
    /\ UNCHANGED <<csv, sorted, result>>

\* a call of calculate_portfolio_profit
CalculatePortfolioProfit ==
    /\ pc = "ready"
    /\ \E sel \in DecileSets :
        \E srt \in SortValues(df, Range(Pool(df, sel))), f \in TargetPcts,
           cp \in CostParams :
            /\ call' = [fn |-> "calculate_portfolio_profit", selected_deciles |-> sel,
                        target_pct |-> f, email_cost |-> cp[1],
                        profit_per_conversion |-> cp[2]]
            /\ sorted' = srt
            /\ result' = PortfolioProfit(df, srt, f, cp[1], cp[2])
    /\ pc' = "returned"
    /\ raised' = "none"
    /\ UNCHANGED <<csv, df>>

\* a call of calculate_spray_and_pray
CalculateSprayAndPray ==
    /\ pc = "ready"
    /\ \E cp \in CostParams :
            /\ call' = [NoCall EXCEPT !.fn = "calculate_spray_and_pray",
                                      !.email_cost = cp[1],
                                      !.profit_per_conversion = cp[2]]
            /\ result' = SprayAndPray(df, cp[1], cp[2])
    /\ sorted' = <<>>
    /\ pc' = "returned"
    /\ raised' = "none"
    /\ UNCHANGED <<csv, df>>

\* a call of calculate_profit_curve
CalculateProfitCurve ==
    /\ pc = "ready"
    /\ \E sel \in DecileSets :
        \E srt \in SortValues(df, Range(Pool(df, sel))), cp \in CostParams :
            /\ call' = [NoCall EXCEPT !.fn = "calculate_profit_curve",
                                      !.selected_deciles = sel,
                                      !.email_cost = cp[1],
                                      !.profit_per_conversion = cp[2]]
            /\ sorted' = srt
            /\ result' = ProfitCurve(df, srt, cp[1], cp[2])
    /\ pc' = "returned"
    /\ raised' = "none"
    /\ UNCHANGED <<csv, df>>

\* a call of calculate_decile_stats
CalculateDecileStats ==
    /\ pc = "ready"
    /\ call' = [NoCall EXCEPT !.fn = "calculate_decile_stats"]
    /\ result' = DecileStats(df)
    /\ sorted' = <<>>
    /\ pc' = "returned"
    /\ raised' = "none"
    /\ UNCHANGED <<csv, df>>

\* the comparison main makes: calculate_portfolio_profit with all deciles
\* (before) and with the selected deciles (after), at one targeting fraction
\* and one pair of cost parameters
CompareStrategies ==
    /\ pc = "ready"
    /\ \E sel \in AuditDecileSets :
        \E before \in SortValues(df, Range(Pool(df, AllDeciles))),
           after \in SortValues(df, Range(Pool(df, sel))),
           f \in AuditPcts, cp \in AuditCostParams :
            /\ call' = [fn |-> "compare_strategies", selected_deciles |-> sel,
                        target_pct |-> f, email_cost |-> cp[1],
                        profit_per_conversion |-> cp[2]]
            /\ sorted' = after
            /\ result' = [before_result |-> PortfolioProfit(df, before, f, cp[1], cp[2]),
                          after_result |-> PortfolioProfit(df, after, f, cp[1], cp[2])]
    /\ pc' = "returned"
    /\ raised' = "none"
    /\ UNCHANGED <<csv, df>>

\* the caller takes the returned dict; the engine keeps nothing of the call
Return ==
    /\ pc = "returned"
    /\ pc' = "ready"
    /\ call' = NoCall
    /\ sorted' = <<>>
    /\ result' = NoResult
    /\ UNCHANGED <<csv, df, raised>>

\* the session of the two point estimators
Next ==
    \/ LoadAndPrepareData
    \/ CalculatePortfolioProfit
    \/ CalculateSprayAndPray
    \/ Return

Spec == Init /\ [][Next]_vars

\* the session of the profit-curve sweeper
NextCurve ==
    \/ LoadAndPrepareData
    \/ CalculateProfitCurve
    \/ Return

SpecCurve == InitCurve /\ [][NextCurve]_vars

\* the decile assignment alone, on files long enough to fill ten bins
NextDecile == LoadAndPrepareData

SpecDecile == InitDecile /\ [][NextDecile]_vars

\* the decile audit: the per-decile statistics of a loaded file, and the
\* portfolio with and without the deciles the audit removes
NextAudit ==
    \/ LoadAndPrepareData
    \/ CalculateDecileStats
    \/ CompareStrategies
    \/ Return

SpecAudit == InitAudit /\ [][NextAudit]_vars

-----------------------------------------------------------------------------
(* Properties *)

Called(fn) == call.fn = fn

\* the arguments the contract of the estimators allows
ValidCostArgs ==
    /\ RLess(Zero, call.email_cost)
    /\ RLess(Zero, call.profit_per_conversion)

ValidFraction == RLess(Zero, call.target_pct) /\ RLeq(call.target_pct, RInt(1))

DecileSize(d) == Cardinality({i \in 1..Len(df) : df[i].decile = d})

\* the rows of df the included-decile set of the call matches
Matched == {i \in 1..Len(df) : df[i].decile \in call.selected_deciles}

\* the rows the last portfolio call targeted, as a set of df positions
Targeted == Range(HeadN(sorted, result.emails_sent))

Arms(S) == {df[i].treatment : i \in S}

\* C1: a file of at least 10 rows, whatever its scores and however many of
\* them tie, is labelled without error with deciles 1..10, every decile is
\* non-empty, and no two decile sizes differ by more than one.
C1_TenBalancedDeciles ==
    (Called("load_and_prepare_data") /\ Len(csv) >= 10) =>
        /\ raised = "none"
        /\ Len(df) = Len(csv)
        /\ \A i \in 1..Len(df) : df[i].decile \in 1..10
        /\ \A d \in 1..10 : DecileSize(d) >= 1
        /\ \A d, e \in 1..10 : DecileSize(d) - DecileSize(e) <= 1

\* C1 witness: a loaded file of more than 10 rows that all share one score
C1_Witness ==
    /\ Called("load_and_prepare_data")
    /\ pc = "ready"
    /\ Len(csv) > 10
    /\ \A i \in 1..Len(csv) : csv[i].uplift_score = csv[1].uplift_score
    /\ DecileSize(1) = 2 /\ DecileSize(5) = 1

\* C2 (as claimed): a file of fewer than 10 rows makes the assignment fail and
\* leaves no decile-labelled frame.  The claim names the error
\* InsufficientDataError; the formula asks only that some error is raised.
C2_FewRecordsFail ==
    (Called("load_and_prepare_data") /\ Len(csv) < 10) =>
        (raised # "none" /\ df = <<>>)

\* C3 (as claimed): with positive cost parameters the baseline estimator
\* returns, field for field, what the portfolio estimator returns for all ten
\* deciles at targeting fraction 1, also when one arm of the file is empty.
\* The fields compared are those the baseline dict has (it has no pool_size).
C3_BaselineEqualsPortfolio ==
    (Called("calculate_spray_and_pray") /\ ValidCostArgs) =>
        \A srt \in SortValues(df, Range(Pool(df, AllDeciles))) :
            LET p == PortfolioProfit(df, srt, RInt(1), call.email_cost,
                                     call.profit_per_conversion)
            IN  /\ REq(result.profit, p.profit)
                /\ REq(result.revenue, p.revenue)
                /\ REq(result.cost, p.cost)
                /\ REq(result.incremental_conversions, p.incremental_conversions)
                /\ result.emails_sent = p.emails_sent

\* C4 (as claimed): a portfolio call whose targeting fraction is outside
\* (0,1], or whose email cost or profit per conversion is not positive,
\* raises ValidationError and produces no result.
C4_InvalidArgumentsRejected ==
    (Called("calculate_portfolio_profit") /\ ~(ValidCostArgs /\ ValidFraction)) =>
        (raised = "ValidationError" /\ result = NoResult)

\* C5 (as claimed): for a non-empty pool and a fraction in (0,1] the targeted
\* count is round(pool_size * f), or 1 when that is 0.  Stated for calls
\* whose cost parameters are valid too.
C5_TargetedIsRounded ==
    (Called("calculate_portfolio_profit") /\ ValidFraction /\ ValidCostArgs
        /\ Matched # {}) =>
        LET r == PyRound(RMul(RInt(Cardinality(Matched)), call.target_pct))
        IN  result.emails_sent = IF r = 0 THEN 1 ELSE r

\* C5 (amended): for a non-empty pool and a fraction in (0,1] the targeted
\* count n is pool_size * f truncated to an integer (n <= pool_size * f <
\* n + 1), or 1 when pool_size * f < 1.
C5_TargetedIsTruncated ==
    (Called("calculate_portfolio_profit") /\ ValidFraction /\ Matched # {}) =>
        LET x == RMul(RInt(Cardinality(Matched)), call.target_pct)
            n == result.emails_sent
        IN  IF RLess(x, RInt(1)) THEN n = 1
            ELSE RLeq(RInt(n), x) /\ RLess(x, RInt(n + 1))

\* C5 witness: a call where truncation and rounding part: pool_size * f has a
\* fractional part of at least one half and the count is its integer part
C5_Witness ==
    /\ Called("calculate_portfolio_profit")
    /\ ValidFraction
    /\ Cardinality(Matched) >= 2
    /\ LET x == RMul(RInt(Cardinality(Matched)), call.target_pct)
       IN  /\ PyRound(x) = RFloor(x) + 1
           /\ result.emails_sent = RFloor(x)

\* C6: when the included-decile set matches no row (the empty set included)
\* the portfolio estimator raises nothing and returns profit, revenue, cost,
\* incremental conversions, targeted count and pool size all zero.
C6_EmptyPoolAllZero ==
    (Called("calculate_portfolio_profit") /\ Matched = {}) =>
        /\ raised = "none"
        /\ REq(result.profit, Zero)
        /\ REq(result.revenue, Zero)
        /\ REq(result.cost, Zero)
        /\ REq(result.incremental_conversions, Zero)
        /\ result.emails_sent = 0
        /\ result.pool_size = 0

\* C6 witness: a call on a loaded file with a non-empty decile set that
\* matches none of its rows, and with a positive email cost
C6_Witness ==
    /\ Called("calculate_portfolio_profit")
    /\ Len(df) > 0
    /\ call.selected_deciles # {}
    /\ Matched = {}
    /\ ValidCostArgs
    /\ result.pool_size = 0

\* C7: every result of the portfolio estimator has profit = revenue - cost,
\* revenue = incremental_conversions * profit_per_conversion and
\* cost = customers_targeted * email_cost.
C7_ProfitIdentities ==
    Called("calculate_portfolio_profit") =>
        /\ REq(result.profit, RSub(result.revenue, result.cost))
        /\ REq(result.revenue,
               RMul(result.incremental_conversions, call.profit_per_conversion))
        /\ REq(result.cost, RMul(RInt(result.emails_sent), call.email_cost))

\* C7 witness: a call that targets part of its pool, both arms among the
\* targeted rows, with revenue and cost both non-zero
C7_Witness ==
    /\ Called("calculate_portfolio_profit")
    /\ ValidCostArgs /\ ValidFraction
    /\ result.emails_sent < result.pool_size
    /\ Arms(Targeted) = {0, 1}
    /\ result.revenue # Zero
    /\ result.cost # Zero

\* C8: when the targeted rows of a portfolio call all belong to one arm, the
\* result has no incremental conversions and no revenue, its cost is
\* customers_targeted * email_cost and its profit is minus that cost,
\* whatever the outcomes of the targeted rows.
C8_SingleArmPureCost ==
    (Called("calculate_portfolio_profit") /\ Matched # {}
        /\ Cardinality(Arms(Targeted)) = 1) =>
        /\ REq(result.incremental_conversions, Zero)
        /\ REq(result.revenue, Zero)
        /\ REq(result.cost, RMul(RInt(result.emails_sent), call.email_cost))
        /\ REq(result.profit, RSub(Zero, result.cost))

\* C8 witness: two or more targeted rows, all treated, one of them converted
C8_Witness ==
    /\ Called("calculate_portfolio_profit")
    /\ ValidCostArgs /\ ValidFraction
    /\ Cardinality(Targeted) >= 2
    /\ Arms(Targeted) = {1}
    /\ \E i \in Targeted : df[i].y_true = 1
    /\ RLess(result.profit, Zero)

\* C9: the optimum the sweeper reports is a point of its own grid, no point
\* of the grid has a higher profit, and every point with a smaller
\* percentage has a strictly lower profit (the first maximum is reported).
C9_OptimumIsFirstMaximum ==
    Called("calculate_profit_curve") =>
        /\ \E k \in 1..Len(result.profits) :
              /\ result.percentages[k] = result.optimal_pct
              /\ result.profits[k] = result.optimal_profit
        /\ \A j \in 1..Len(result.profits) :
              /\ RLeq(result.profits[j], result.optimal_profit)
              /\ result.percentages[j] < result.optimal_pct
                    => RLess(result.profits[j], result.optimal_profit)

\* C9 witness: a sweep with valid cost parameters whose maximum is attained
\* at more than one percentage, while some other percentage earns less
C9_Witness ==
    /\ Called("calculate_profit_curve")
    /\ ValidCostArgs
    /\ Matched # {}
    /\ \E j \in 1..Len(result.profits) :
          /\ result.percentages[j] > result.optimal_pct
          /\ result.profits[j] = result.optimal_profit
    /\ \E j \in 1..Len(result.profits) :
          RLess(result.profits[j], result.optimal_profit)

\* C10: the default sweep returns 20 pairs, the percentages are 5, 10, ...,
\* 100 in increasing order, and the profit at percentage p is the profit of
\* the portfolio estimator for the same frame, decile set and cost
\* parameters at targeting fraction p / 100.
C10_DefaultSweepGrid ==
    Called("calculate_profit_curve") =>
        /\ Len(result.percentages) = 20
        /\ Len(result.profits) = 20
        /\ \A k \in 1..20 :
              /\ result.percentages[k] = 5 * k
              /\ result.profits[k] =
                    PortfolioProfit(df, sorted, Rat(5 * k, 100), call.email_cost,
                                    call.profit_per_conversion).profit

\* C10 witness: a sweep over a non-empty pool, with valid cost parameters,
\* whose profit at 100 percent differs from its profit at 5 percent
C10_Witness ==
    /\ Called("calculate_profit_curve")
    /\ ValidCostArgs
    /\ Cardinality(Matched) >= 2
    /\ sorted # <<>>
    /\ result.profits[1] # result.profits[20]

\* the outcomes of the rows of decile d in arm a, taken from df directly
ArmRows(d, a) == {i \in 1..Len(df) : df[i].decile = d /\ df[i].treatment = a}

ArmConversions(d, a) == Cardinality({i \in ArmRows(d, a) : df[i].y_true = 1})

\* C11: the decile-stats calculator returns one row for each decile 1..10, in
\* order, empty deciles included.  Where the treated or the control rows of a
\* decile are missing, treated rate, control rate and lift are all 0;
\* elsewhere each rate is the mean outcome of its arm (reported in percent)
\* and the lift is the treated rate minus the control rate (raw in
\* uplift_rate, in percent in observed_lift).
C11_DecileStatsRows ==
    Called("calculate_decile_stats") =>
        /\ Len(result) = 10
        /\ \A d \in 1..10 :
            LET row == result[d]
                nt  == Cardinality(ArmRows(d, 1))
                nc  == Cardinality(ArmRows(d, 0))
            IN  /\ row.decile = d
                /\ row.n_customers = DecileSize(d)
                /\ row.n_treated = nt
                /\ row.n_control = nc
                /\ IF nt = 0 \/ nc = 0
                   THEN /\ REq(row.treatment_rate, Zero)
                        /\ REq(row.control_rate, Zero)
                        /\ REq(row.observed_lift, Zero)
                        /\ REq(row.uplift_rate, Zero)
                   ELSE /\ REq(row.treatment_rate, Rat(100 * ArmConversions(d, 1), nt))
                        /\ REq(row.control_rate, Rat(100 * ArmConversions(d, 0), nc))
                        /\ REq(row.observed_lift,
                               RSub(row.treatment_rate, row.control_rate))
                        /\ REq(row.uplift_rate,
                               RSub(Rat(ArmConversions(d, 1), nt),
                                    Rat(ArmConversions(d, 0), nc)))

\* C11 witness: statistics of a file with a decile whose only rows are
\* treated and converted, and a decile with both arms and a lift that is not
\* zero (a decile without rows needs a file of fewer than 10 rows, where no
\* decile has two rows)
C11_Witness ==
    /\ Called("calculate_decile_stats")
    /\ \E d \in 1..10 : ArmRows(d, 0) = {} /\ ArmConversions(d, 1) > 0
    /\ \E d \in 1..10 : result[d].uplift_rate # Zero

\* a frame of 10 rows with exactly one row in each decile
OneRowPerDecile == Len(df) = 10 /\ \A d \in 1..10 : DecileSize(d) = 1

\* C12 (as claimed): on a 10-row frame with one row per decile, at every
\* targeting fraction in (0,1], the portfolio without decile 9 targets
\* strictly fewer customers than the portfolio of all 10 deciles.
C12_ExclusionStrictlyReduces ==
    (Called("compare_strategies") /\ OneRowPerDecile
        /\ call.selected_deciles = AllDeciles \ {9}) =>
        result.after_result.emails_sent < result.before_result.emails_sent

\* C12 (amended): on such a frame the portfolio without decile 9 has a pool
\* of 9 against 10 and never targets more customers than the portfolio of
\* all 10 deciles; it targets strictly fewer at every fraction that is a
\* multiple of 0.1 from 0.2 up to 1.0.
C12_ExclusionNeverIncreases ==
    (Called("compare_strategies") /\ OneRowPerDecile
        /\ call.selected_deciles = AllDeciles \ {9}) =>
        /\ result.after_result.pool_size = 9
        /\ result.before_result.pool_size = 10
        /\ result.after_result.emails_sent <= result.before_result.emails_sent
        /\ (RLeq(Rat(1, 5), call.target_pct)
                /\ RMul(RInt(10), call.target_pct).d = 1)
              => result.after_result.emails_sent < result.before_result.emails_sent

\* C12 witness: decile 9 removed from a 10-row frame at fraction 1/2, where 4
\* customers are targeted against 5
C12_Witness ==
    /\ Called("compare_strategies")
    /\ OneRowPerDecile
    /\ call.selected_deciles = AllDeciles \ {9}
    /\ call.target_pct = Rat(1, 2)
    /\ result.after_result.emails_sent = 4
    /\ result.before_result.emails_sent = 5

\* row i comes before row j in the stable rank of the scores of the file
StableBefore(i, j) ==
    \/ csv[i].uplift_score < csv[j].uplift_score
    \/ csv[i].uplift_score = csv[j].uplift_score /\ i < j

\* C13: the decile labels follow the stable rank of the scores: a row with a
\* lower score, or with the same score and an earlier position, never has a
\* higher label; the row ranked first has label 1 and the row ranked last
\* has label 10.
C13_LabelsFollowStableRank ==
    (Called("load_and_prepare_data") /\ pc = "ready") =>
        /\ \A i, j \in 1..Len(df) : StableBefore(i, j) => df[i].decile <= df[j].decile
        /\ \A i \in 1..Len(df) :
              /\ (\A j \in 1..Len(df) : j # i => StableBefore(j, i)) => df[i].decile = 10
              /\ (\A j \in 1..Len(df) : j # i => StableBefore(i, j)) => df[i].decile = 1

\* C13 witness: a loaded file of at least 10 rows in which two rows of equal
\* score fall into different deciles, and a row of higher score precedes a
\* row of lower score
C13_Witness ==
    /\ Called("load_and_prepare_data")
    /\ pc = "ready"
    /\ Len(df) >= 10
    /\ \E i, j \in 1..Len(df) :
          /\ i < j
          /\ csv[i].uplift_score = csv[j].uplift_score
          /\ df[i].decile < df[j].decile
    /\ \E i, j \in 1..Len(df) :
          /\ i < j
          /\ csv[i].uplift_score > csv[j].uplift_score
          /\ df[i].decile > df[j].decile

====
